---- MODULE Spec2Model ----
(***************************************************************************)
(* Model of the music-recommendation data utilities:                       *)
(*   - upload_to_hdfs.py              (CLI transfer, docker/hdfs commands)  *)
(*   - upload_to_hdfs_alternative.py  (REST transfer, hdfs client library)  *)
(*   - load_hdfs_data.py              (HDFSDataLoader, JSON ingestion)      *)
(*                                                                         *)
(* Spec       : runs of the two transfer scripts against one cluster.      *)
(* SpecLoader : calls of the HDFSDataLoader methods on one loader object.  *)
(*                                                                         *)
(* An external command is modelled by its observable outcome: it exits 0,  *)
(* exits non-zero (subprocess.CalledProcessError under check=True) or, for *)
(* the one call that sets a timeout, times out.  A client-library call     *)
(* returns or raises.  The outcome is chosen nondeterministically.         *)
(***************************************************************************)
EXTENDS Integers, Sequences, FiniteSets, TLC

\* ------------------------------------------------------------------ bounds
\* Number of script runs in one behaviour (the cluster state persists).
MaxRuns == 2
\* Number of files the recursive glob discovers.
MaxFiles == 3
\* Number of method calls made on one HDFSDataLoader.
MaxCalls == 3

VARIABLES
    \* ---- transfer scripts
    script,          \* which script this run executes: "cli" or "rest"
    pc,              \* position of the run in the script
    cmds,            \* external commands / client calls issued in this run
    printed,         \* diagnostics printed in this run
    ret,             \* value returned by the last function that returned
    raised,          \* exception propagating out of upload_csv_to_hdfs
    exitCode,        \* process exit status, -1 while running
    run,             \* how many runs have been started
    HDFS_AVAILABLE,  \* module flag of upload_to_hdfs_alternative.py
    hdfs_installed,  \* environment: the hdfs package can be imported
    local_exists,    \* environment: the local CSV file exists
    staged,          \* environment: /tmp/<name> exists in the namenode container
    dir_exists,      \* environment: the remote directory /data exists
    remote_exists,   \* environment: the remote path hdfs_path exists
    \* ---- HDFSDataLoader
    json_files,      \* the files glob discovers, in discovery order
    data,            \* self.data
    out,             \* lines printed by the loader
    lret,            \* what the last method call returned
    calls            \* number of method calls made so far

tvars == <<script, pc, cmds, printed, ret, raised, exitCode, run,
           HDFS_AVAILABLE, hdfs_installed, local_exists, staged,
           dir_exists, remote_exists>>
lvars == <<json_files, data, out, lret, calls>>
vars == <<script, pc, cmds, printed, ret, raised, exitCode, run,
          HDFS_AVAILABLE, hdfs_installed, local_exists, staged,
          dir_exists, remote_exists, json_files, data, out, lret, calls>>

\* ------------------------------------------------------------ constants
hdfs_destination == "/data/lastfm_data.csv"

\* One issued command: its name, whether its destination existed when it was
\* issued (pre), how it ended (rc) and the class of its captured output (text).
Cmd(c, pre, rc, text) == [cmd |-> c, pre |-> pre, rc |-> rc, text |-> text]

Issue(c, pre, rc, text) == cmds' = Append(cmds, Cmd(c, pre, rc, text))

Echo(msgs) == printed' = printed \o msgs

env == <<hdfs_installed, local_exists, staged, dir_exists, remote_exists>>

\* ================================================== upload_to_hdfs.py (CLI)

\* check_hdfs_connection, first command: docker ps --filter name=namenode.
\* Exit 0 with "namenode" in stdout goes on to the probe; exit 0 without it
\* and a non-zero exit both return False.
check_hdfs_connection_ps ==
    /\ script = "cli" /\ pc = "check_ps"
    /\ \E o \in {<<"ok", "namenode">>, <<"ok", "">>, <<"nonzero", "">>} :
          /\ Issue("ps", FALSE, o[1], o[2])
          /\ IF o[1] = "ok" /\ o[2] = "namenode"
                THEN /\ pc' = "check_probe"
                     /\ ret' = ret
                     /\ Echo(<<"namenode_running">>)
                ELSE /\ pc' = "main_check"
                     /\ ret' = "False"
                     /\ Echo(IF o[1] = "ok" THEN <<"namenode_not_running">>
                                            ELSE <<"could_not_check_docker">>)
    /\ UNCHANGED <<script, raised, exitCode, run, HDFS_AVAILABLE, env, lvars>>

\* check_hdfs_connection, second command: hdfs dfs -ls / with timeout=10.
check_hdfs_connection_probe ==
    /\ script = "cli" /\ pc = "check_probe"
    /\ \E rc \in {"ok", "nonzero", "timeout"} :
          /\ Issue("probe", TRUE, rc, "")
          /\ ret' = IF rc = "ok" THEN "True" ELSE "False"
          /\ Echo(CASE rc = "ok" -> <<"hdfs_accessible">>
                    [] rc = "nonzero" -> <<"hdfs_connection_failed">>
                    [] rc = "timeout" -> <<"hdfs_connection_timeout">>)
    /\ pc' = "main_check"
    /\ UNCHANGED <<script, raised, exitCode, run, HDFS_AVAILABLE, env, lvars>>

\* Mutant of main_check: the result of the connectivity check is not looked at.
main_check_no_exit ==
    /\ script = "cli" /\ pc = "main_check"
    /\ pc' = "local_check"
    /\ ret' = "None"
    /\ UNCHANGED <<script, cmds, printed, raised, exitCode, run, HDFS_AVAILABLE,
                   env, lvars>>

\* __main__: if not check_hdfs_connection(): print help; exit(1)
main_check ==
    /\ script = "cli" /\ pc = "main_check"
    /\ IF ret = "False"
          THEN /\ Echo(<<"ensure_containers_running">>)
               /\ exitCode' = 1
               /\ pc' = "exited"
          ELSE /\ printed' = printed
               /\ exitCode' = exitCode
               /\ pc' = "local_check"
    /\ ret' = "None"
    /\ UNCHANGED <<script, cmds, raised, run, HDFS_AVAILABLE, env, lvars>>

\* upload_csv_to_hdfs: if not local_file.exists(): raise FileNotFoundError
upload_local_check ==
    /\ script = "cli" /\ pc = "local_check"
    /\ IF local_exists
          THEN /\ pc' = "step1"
               /\ raised' = raised
               /\ Echo(<<"uploading">>)
          ELSE /\ pc' = "main_except"
               /\ raised' = "FileNotFoundError"
               /\ printed' = printed
    /\ UNCHANGED <<script, cmds, ret, exitCode, run, HDFS_AVAILABLE, env, lvars>>

\* Step 1: docker cp <local> namenode:/tmp/<name>; a non-zero exit is re-raised.
upload_step1_copy ==
    /\ script = "cli" /\ pc = "step1"
    /\ \E rc \in {"ok", "nonzero"} :
          /\ Issue("cp", staged, rc, "")
          /\ IF rc = "ok"
                THEN /\ staged' = TRUE
                     /\ pc' = "step2"
                     /\ raised' = raised
                     /\ Echo(<<"file_copied">>)
                ELSE /\ staged' = staged
                     /\ pc' = "main_except"
                     /\ raised' = "CalledProcessError"
                     /\ Echo(<<"error_copying">>)
    /\ UNCHANGED <<script, ret, exitCode, run, HDFS_AVAILABLE, hdfs_installed,
                   local_exists, dir_exists, remote_exists, lvars>>

\* Mutant of MkdirRaises: a mkdir failure is re-raised unless stderr says
\* the directory already exists.
MkdirRaises_strict(rc, text) == rc = "nonzero" /\ text # "already exists"

\* Where control goes after the mkdir command, by its exit status and stderr.
MkdirRaises(rc, text) == FALSE

\* What the mkdir handler prints.
MkdirEcho(rc, text) ==
    IF rc = "ok" THEN <<"directory_created">>
    ELSE IF text = "already exists" THEN <<>> ELSE <<"warning_mkdir">>

\* Step 2: hdfs dfs -mkdir -p /data; CalledProcessError is caught and never
\* re-raised: it is printed as a warning unless stderr says "already exists".
upload_step2_mkdir ==
    /\ script = "cli" /\ pc = "step2"
    /\ \E o \in {<<"ok", "">>, <<"nonzero", "already exists">>, <<"nonzero", "other">>} :
          /\ Issue("mkdir", dir_exists, o[1], o[2])
          /\ dir_exists' = IF o[1] = "ok" THEN TRUE ELSE dir_exists
          /\ Echo(MkdirEcho(o[1], o[2]))
          /\ IF MkdirRaises(o[1], o[2])
                THEN pc' = "main_except" /\ raised' = "CalledProcessError"
                ELSE pc' = "step3" /\ raised' = raised
    /\ UNCHANGED <<script, ret, exitCode, run, HDFS_AVAILABLE, hdfs_installed,
                   local_exists, staged, remote_exists, lvars>>

\* Mutant of upload_step3_put: a failed put is tried once more before raising.
upload_step3_put_retry ==
    /\ script = "cli" /\ pc = "step3"
    /\ \E rc \in {"ok", "nonzero"} :
          IF rc = "ok"
             THEN /\ Issue("put", remote_exists, rc, "")
                  /\ remote_exists' = TRUE
                  /\ pc' = "step4"
                  /\ raised' = raised
                  /\ Echo(<<"file_uploaded">>)
             ELSE /\ cmds' = cmds \o <<Cmd("put", remote_exists, rc, ""),
                                       Cmd("put", remote_exists, rc, "")>>
                  /\ remote_exists' = remote_exists
                  /\ pc' = "main_except"
                  /\ raised' = "CalledProcessError"
                  /\ Echo(<<"error_uploading">>)
    /\ UNCHANGED <<script, ret, exitCode, run, HDFS_AVAILABLE, hdfs_installed,
                   local_exists, staged, dir_exists, lvars>>

\* Mutant of upload_step3_put: a failed put removes the staged file before
\* raising.
upload_step3_put_cleans ==
    /\ script = "cli" /\ pc = "step3"
    /\ \E rc \in {"ok", "nonzero"} :
          IF rc = "ok"
             THEN /\ Issue("put", remote_exists, rc, "")
                  /\ remote_exists' = TRUE
                  /\ staged' = staged
                  /\ pc' = "step4"
                  /\ raised' = raised
                  /\ Echo(<<"file_uploaded">>)
             ELSE /\ cmds' = cmds \o <<Cmd("put", remote_exists, rc, ""),
                                       Cmd("rm", staged, "ok", "")>>
                  /\ remote_exists' = remote_exists
                  /\ staged' = FALSE
                  /\ pc' = "main_except"
                  /\ raised' = "CalledProcessError"
                  /\ Echo(<<"error_uploading">>)
    /\ UNCHANGED <<script, ret, exitCode, run, HDFS_AVAILABLE, hdfs_installed,
                   local_exists, dir_exists, lvars>>

\* Step 3: hdfs dfs -put /tmp/<name> <hdfs_path>; a non-zero exit is re-raised.
upload_step3_put ==
    /\ script = "cli" /\ pc = "step3"
    /\ \E rc \in {"ok", "nonzero"} :
          /\ Issue("put", remote_exists, rc, "")
          /\ IF rc = "ok"
                THEN /\ remote_exists' = TRUE
                     /\ pc' = "step4"
                     /\ raised' = raised
                     /\ Echo(<<"file_uploaded">>)
                ELSE /\ remote_exists' = remote_exists
                     /\ pc' = "main_except"
                     /\ raised' = "CalledProcessError"
                     /\ Echo(<<"error_uploading">>)
    /\ UNCHANGED <<script, ret, exitCode, run, HDFS_AVAILABLE, hdfs_installed,
                   local_exists, staged, dir_exists, lvars>>

\* Mutant of upload_step4_verify: a failed listing is re-raised.
upload_step4_verify_raises ==
    /\ script = "cli" /\ pc = "step4"
    /\ \E rc \in {"ok", "nonzero"} :
          /\ Issue("ls", remote_exists, rc, "")
          /\ IF rc = "ok"
                THEN pc' = "step5" /\ raised' = raised
                     /\ Echo(<<"file_verified">>)
                ELSE pc' = "main_except" /\ raised' = "CalledProcessError"
                     /\ Echo(<<"warning_verify">>)
    /\ UNCHANGED <<script, ret, exitCode, run, HDFS_AVAILABLE, env, lvars>>

\* Step 4: hdfs dfs -ls <hdfs_path>; a non-zero exit only prints a warning.
upload_step4_verify ==
    /\ script = "cli" /\ pc = "step4"
    /\ \E rc \in {"ok", "nonzero"} :
          /\ Issue("ls", remote_exists, rc, "")
          /\ Echo(IF rc = "ok" THEN <<"file_verified">> ELSE <<"warning_verify">>)
    /\ pc' = "step5"
    /\ UNCHANGED <<script, ret, raised, exitCode, run, HDFS_AVAILABLE, env, lvars>>

\* Step 5: rm /tmp/<name> in the container; a non-zero exit is ignored.  Then
\* the success line is printed and hdfs_path is returned.
upload_step5_cleanup ==
    /\ script = "cli" /\ pc = "step5"
    /\ \E rc \in {"ok", "nonzero"} :
          /\ Issue("rm", staged, rc, "")
          /\ staged' = IF rc = "ok" THEN FALSE ELSE staged
          /\ Echo(IF rc = "ok" THEN <<"cleanup_complete", "success">>
                               ELSE <<"success">>)
    /\ ret' = hdfs_destination
    /\ pc' = "main_end"
    /\ UNCHANGED <<script, raised, exitCode, run, HDFS_AVAILABLE, hdfs_installed,
                   local_exists, dir_exists, remote_exists, lvars>>

\* __main__: except Exception as e: print error; exit(1)
main_except ==
    /\ script = "cli" /\ pc = "main_except"
    /\ Echo(<<"error">>)
    /\ exitCode' = 1
    /\ pc' = "exited"
    /\ UNCHANGED <<script, cmds, ret, raised, run, HDFS_AVAILABLE, env, lvars>>

\* __main__: upload_csv_to_hdfs returned; the script ends, exit status 0.
main_end ==
    /\ script = "cli" /\ pc = "main_end"
    /\ exitCode' = 0
    /\ pc' = "exited"
    /\ UNCHANGED <<script, cmds, printed, ret, raised, run, HDFS_AVAILABLE, env, lvars>>

\* ==================================== upload_to_hdfs_alternative.py (REST)

\* Module import: try: from hdfs import InsecureClient ... except ImportError
rest_import ==
    /\ script = "rest" /\ pc = "import"
    /\ HDFS_AVAILABLE' = hdfs_installed
    /\ Echo(IF hdfs_installed THEN <<>> ELSE <<"hdfs_library_not_installed">>)
    /\ pc' = "lib_available"
    /\ UNCHANGED <<script, cmds, ret, raised, exitCode, run, env, lvars>>

\* upload_csv_to_hdfs_hdfs_lib: if not HDFS_AVAILABLE: return False
lib_available_check ==
    /\ script = "rest" /\ pc = "lib_available"
    /\ IF HDFS_AVAILABLE
          THEN pc' = "lib_local_check" /\ ret' = ret /\ printed' = printed
          ELSE pc' = "rest_main_end" /\ ret' = "False"
               /\ Echo(<<"please_install_hdfs">>)
    /\ UNCHANGED <<script, cmds, raised, exitCode, run, HDFS_AVAILABLE, env, lvars>>

\* upload_csv_to_hdfs_hdfs_lib: if not local_file.exists(): return False
lib_local_check ==
    /\ script = "rest" /\ pc = "lib_local_check"
    /\ IF local_exists
          THEN pc' = "lib_connect" /\ ret' = ret /\ printed' = printed
          ELSE pc' = "rest_main_end" /\ ret' = "False"
               /\ Echo(<<"file_not_found">>)
    /\ UNCHANGED <<script, cmds, raised, exitCode, run, HDFS_AVAILABLE, env, lvars>>

\* client = InsecureClient(...); any exception prints and returns False.
lib_connect ==
    /\ script = "rest" /\ pc = "lib_connect"
    /\ \E rc \in {"ok", "exception"} :
          /\ Issue("connect", TRUE, rc, "")
          /\ IF rc = "ok"
                THEN pc' = "lib_makedirs" /\ ret' = ret
                     /\ Echo(<<"connected">>)
                ELSE pc' = "rest_main_end" /\ ret' = "False"
                     /\ Echo(<<"could_not_connect">>)
    /\ UNCHANGED <<script, raised, exitCode, run, HDFS_AVAILABLE, env, lvars>>

\* Mutant of lib_makedirs: a failed makedirs returns False.
lib_makedirs_aborts ==
    /\ script = "rest" /\ pc = "lib_makedirs"
    /\ \E rc \in {"ok", "exception"} :
          /\ Issue("makedirs", dir_exists, rc, "")
          /\ dir_exists' = IF rc = "ok" THEN TRUE ELSE dir_exists
          /\ IF rc = "ok"
                THEN pc' = "lib_upload" /\ ret' = ret
                     /\ Echo(<<"directory_created">>)
                ELSE pc' = "rest_main_end" /\ ret' = "False"
                     /\ Echo(<<"warning_makedirs">>)
    /\ UNCHANGED <<script, raised, exitCode, run, HDFS_AVAILABLE, hdfs_installed,
                   local_exists, staged, remote_exists, lvars>>

\* client.makedirs(hdfs_dir); any exception is printed as a warning only.
lib_makedirs ==
    /\ script = "rest" /\ pc = "lib_makedirs"
    /\ \E rc \in {"ok", "exception"} :
          /\ Issue("makedirs", dir_exists, rc, "")
          /\ dir_exists' = IF rc = "ok" THEN TRUE ELSE dir_exists
          /\ Echo(IF rc = "ok" THEN <<"directory_created">> ELSE <<"warning_makedirs">>)
    /\ pc' = "lib_upload"
    /\ UNCHANGED <<script, ret, raised, exitCode, run, HDFS_AVAILABLE, hdfs_installed,
                   local_exists, staged, remote_exists, lvars>>

\* client.upload(hdfs_path, local); an exception prints and returns False.
lib_upload ==
    /\ script = "rest" /\ pc = "lib_upload"
    /\ \E rc \in {"ok", "exception"} :
          /\ Issue("upload", remote_exists, rc, "")
          /\ IF rc = "ok"
                THEN /\ remote_exists' = TRUE
                     /\ pc' = "lib_status"
                     /\ ret' = ret
                     /\ Echo(<<"uploading", "file_uploaded">>)
                ELSE /\ remote_exists' = remote_exists
                     /\ pc' = "rest_main_end"
                     /\ ret' = "False"
                     /\ Echo(<<"uploading", "upload_failed">>)
    /\ UNCHANGED <<script, raised, exitCode, run, HDFS_AVAILABLE, hdfs_installed,
                   local_exists, staged, dir_exists, lvars>>

\* status = client.status(hdfs_path); print size; return True.  An exception
\* is caught by the same handler as the upload's: prints, returns False.
lib_status ==
    /\ script = "rest" /\ pc = "lib_status"
    /\ \E rc \in {"ok", "exception"} :
          /\ Issue("status", remote_exists, rc, "")
          /\ ret' = IF rc = "ok" THEN "True" ELSE "False"
          /\ Echo(IF rc = "ok" THEN <<"file_info">> ELSE <<"upload_failed">>)
    /\ pc' = "rest_main_end"
    /\ UNCHANGED <<script, raised, exitCode, run, HDFS_AVAILABLE, env, lvars>>

\* __main__: upload_csv_to_hdfs_hdfs_lib(...) is called as a statement, its
\* return value is dropped, and the script ends: exit status 0.
rest_main_end ==
    /\ script = "rest" /\ pc = "rest_main_end"
    /\ exitCode' = 0
    /\ pc' = "exited"
    /\ UNCHANGED <<script, cmds, printed, ret, raised, run, HDFS_AVAILABLE, env, lvars>>

\* ================================================================== runs

\* Where each script starts.
StartPc(sc) == IF sc = "cli" THEN "check_ps" ELSE "import"

\* The user starts one of the scripts again; the cluster, the container and
\* the local file are as the previous run left them.
NewRun ==
    /\ pc = "exited" /\ run < MaxRuns
    /\ \E sc \in {"cli", "rest"} :
          /\ script' = sc
          /\ pc' = StartPc(sc)
    /\ cmds' = <<>> /\ printed' = <<>>
    /\ ret' = "None" /\ raised' = "none" /\ exitCode' = -1
    /\ HDFS_AVAILABLE' = FALSE
    /\ run' = run + 1
    /\ UNCHANGED <<env, lvars>>

TransferInit ==
    /\ script \in {"cli", "rest"}
    /\ pc = StartPc(script)
    /\ cmds = <<>> /\ printed = <<>>
    /\ ret = "None" /\ raised = "none" /\ exitCode = -1
    /\ run = 1
    /\ HDFS_AVAILABLE = FALSE
    /\ hdfs_installed \in BOOLEAN
    /\ local_exists \in BOOLEAN
    /\ staged = FALSE
    /\ dir_exists \in BOOLEAN
    /\ remote_exists \in BOOLEAN

LoaderIdle ==
    /\ json_files = <<>> /\ data = <<>> /\ out = <<>>
    /\ lret = [kind |-> "None", n |-> 0] /\ calls = 0

Init == TransferInit /\ LoaderIdle

Next ==
    \/ check_hdfs_connection_ps
    \/ check_hdfs_connection_probe
    \/ main_check
    \/ upload_local_check
    \/ upload_step1_copy
    \/ upload_step2_mkdir
    \/ upload_step3_put
    \/ upload_step4_verify
    \/ upload_step5_cleanup
    \/ main_except
    \/ main_end
    \/ rest_import
    \/ lib_available_check
    \/ lib_local_check
    \/ lib_connect
    \/ lib_makedirs
    \/ lib_upload
    \/ lib_status
    \/ rest_main_end
    \/ NewRun

Spec == Init /\ [][Next]_vars

\* ===================================== load_hdfs_data.py (HDFSDataLoader)

\* Progress is reported every ProgressEvery files.
ProgressEvery == 10000

\* The texts a discovered file may hold.
JsonTexts == {"{\"id\": 1}", "{\"id\": 2}", "[3]", "not valid json"}

\* A discovered file: it can be opened or not, and holds a text.
Files == [readable : {TRUE}, text : JsonTexts] \cup [readable : {FALSE}, text : {""}]

\* json.load on a text: the parsed value, or a raised JSONDecodeError.
\* A parsed value carries its Python type and its content.
json_load(text) ==
    CASE text = "{\"id\": 1}" -> [ok |-> TRUE, value |-> [kind |-> "dict", id |-> 1]]
      [] text = "{\"id\": 2}" -> [ok |-> TRUE, value |-> [kind |-> "dict", id |-> 2]]
      [] text = "[3]"         -> [ok |-> TRUE, value |-> [kind |-> "list", id |-> 3]]
      [] OTHER                -> [ok |-> FALSE, value |-> [kind |-> "none", id |-> 0]]

\* with open(file_path) as f: data = json.load(f) -- open raises on an
\* unreadable file, json.load raises on an unparsable text.
open_and_load(f) ==
    IF f.readable THEN json_load(f.text)
    ELSE [ok |-> FALSE, value |-> [kind |-> "none", id |-> 0]]

Line(kind, n) == [kind |-> kind, n |-> n]

\* What one iteration of the loop does with what open_and_load gave: append
\* and maybe report progress, or log the error; either way go on.
LoopStep(r, idx, d, o) ==
    IF r.ok
       THEN [data |-> Append(d, r.value),
             out  |-> IF idx % ProgressEvery = 0
                         THEN Append(o, Line("progress", idx)) ELSE o]
       ELSE [data |-> d, out |-> Append(o, Line("error", idx))]

\* Mutant of LoadLoop: the first failing file ends the loop.
RECURSIVE LoadLoop_abort(_, _, _, _)
LoadLoop_abort(files, idx, d, o) ==
    IF idx > Len(files) THEN [data |-> d, out |-> o]
    ELSE LET r == open_and_load(files[idx])
             s == LoopStep(r, idx, d, o)
         IN  IF r.ok THEN LoadLoop_abort(files, idx + 1, s.data, s.out)
                     ELSE s

\* for idx, file_path in enumerate(json_files): ... (idx here is idx + 1)
RECURSIVE LoadLoop(_, _, _, _)
LoadLoop(files, idx, d, o) ==
    IF idx > Len(files) THEN [data |-> d, out |-> o]
    ELSE LET s == LoopStep(open_and_load(files[idx]), idx, d, o)
         IN  LoadLoop(files, idx + 1, s.data, s.out)

\* The body of load_all_json_files applied to self.data = d and output o:
\* the loop appends to self.data as it is, the list is never cleared.
LoadAll(d, o) ==
    LET r == LoadLoop(json_files, 1, d,
                      Append(o, Line("found", Len(json_files))))
    IN  [data |-> r.data, out |-> Append(r.out, Line("loaded", Len(r.data)))]

Ret(kind, n) == [kind |-> kind, n |-> n]

load_all_json_files ==
    /\ calls < MaxCalls
    /\ LET r == LoadAll(data, out)
       IN  /\ data' = r.data
           /\ out' = r.out
           /\ lret' = Ret("list", Len(r.data))
    /\ calls' = calls + 1
    /\ UNCHANGED <<json_files, tvars>>

\* if not self.data: self.load_all_json_files(); return pd.DataFrame(self.data)
to_dataframe ==
    /\ calls < MaxCalls
    /\ LET r == IF data = <<>> THEN LoadAll(data, out)
                               ELSE [data |-> data, out |-> out]
       IN  /\ data' = r.data
           /\ out' = r.out
           /\ lret' = Ret("DataFrame", Len(r.data))
    /\ calls' = calls + 1
    /\ UNCHANGED <<json_files, tvars>>

\* if not self.data: print; self.load_all_json_files(); return the statistics.
\* self.data[0].keys() raises AttributeError when the first record is no dict.
get_statistics ==
    /\ calls < MaxCalls
    /\ LET r == IF data = <<>> THEN LoadAll(data, Append(out, Line("no_data", 0)))
                               ELSE [data |-> data, out |-> out]
       IN  /\ data' = r.data
           /\ out' = r.out
           /\ lret' = IF r.data # <<>> /\ r.data[1].kind # "dict"
                         THEN Ret("AttributeError", 0)
                         ELSE Ret("statistics", Len(r.data))
    /\ calls' = calls + 1
    /\ UNCHANGED <<json_files, tvars>>

\* HDFSDataLoader.__init__: self.data = [] ; the directory holds any files.
LoaderInit ==
    /\ json_files \in UNION {[1..n -> Files] : n \in 0..MaxFiles}
    /\ data = <<>>
    /\ out = <<>>
    /\ lret = Ret("None", 0)
    /\ calls = 0

TransferIdle ==
    /\ script = "none" /\ pc = "idle"
    /\ cmds = <<>> /\ printed = <<>>
    /\ ret = "None" /\ raised = "none" /\ exitCode = -1
    /\ run = 0
    /\ HDFS_AVAILABLE = FALSE /\ hdfs_installed = FALSE
    /\ local_exists = FALSE /\ staged = FALSE
    /\ dir_exists = FALSE /\ remote_exists = FALSE

InitLoader == LoaderInit /\ TransferIdle

NextLoader ==
    \/ load_all_json_files
    \/ to_dataframe
    \/ get_statistics

SpecLoader == InitLoader /\ [][NextLoader]_vars

\* ================================================================ claims

\* Names of the commands issued so far in this run, in order.
Names == [i \in DOMAIN cmds |-> cmds[i].cmd]

Count(c) == Cardinality({i \in DOMAIN cmds : cmds[i].cmd = c})

Has(c, rc) == \E i \in DOMAIN cmds : cmds[i].cmd = c /\ cmds[i].rc = rc

IsPrefix(a, b) == Len(a) <= Len(b) /\ \A i \in DOMAIN a : a[i] = b[i]

Printed(m) == \E i \in DOMAIN printed : printed[i] = m

TransferCmds == {"cp", "mkdir", "put", "ls", "rm"}

Mutating == {"cp", "mkdir", "put"}

NoTransfer == \A i \in DOMAIN cmds : cmds[i].cmd \notin TransferCmds

\* The connectivity check of this run has failed in one of its four ways.
CheckFailed ==
    \E i \in DOMAIN cmds :
       \/ cmds[i].cmd = "ps" /\ (cmds[i].rc # "ok" \/ cmds[i].text # "namenode")
       \/ cmds[i].cmd = "probe" /\ cmds[i].rc # "ok"

\* C1: in the CLI script, once check_hdfs_connection has failed (namenode not
\* listed, docker ps non-zero, probe non-zero, probe timed out), no transfer
\* command (cp, mkdir, put, ls, rm) is issued in that run, control is at the
\* exit of __main__, and the process exits with status 1.
C1_FailedCheckStopsRun ==
    (script = "cli" /\ CheckFailed) =>
        /\ NoTransfer
        /\ pc \in {"main_check", "exited"}
        /\ (pc = "main_check" => ret = "False")
        /\ (pc = "exited" => exitCode = 1 /\ Printed("ensure_containers_running"))

C1_Witness ==
    /\ script = "cli" /\ pc = "exited" /\ exitCode = 1
    /\ Has("probe", "timeout") /\ local_exists

\* C2 (as claimed): every mutating command of the CLI transfer is issued only
\* when its destination does not yet exist (staged file for cp, remote
\* directory for mkdir, remote path for put).
C2_Original ==
    script = "cli" =>
        \A i \in DOMAIN cmds : cmds[i].cmd \in Mutating => ~cmds[i].pre

\* The mutating commands issued so far, in order.
MutatingIssued == SelectSeq(Names, LAMBDA c : c \in Mutating)

\* The step at pc appends exactly the one command c to cmds.
IssuesOne(c) ==
    /\ Len(cmds') = Len(cmds) + 1
    /\ SubSeq(cmds', 1, Len(cmds)) = cmds
    /\ cmds'[Len(cmds')].cmd = c

\* C3: in the CLI transfer, a step reached with its destination absent issues
\* exactly one mutating command of its kind (cp at step 1, mkdir at step 2,
\* put at step 3); no kind is issued more than once in a run and the order is
\* cp, mkdir, put.
C3_ExactlyOneInOrder ==
    /\ [][script = "cli" =>
             /\ (pc = "step1" /\ ~staged => IssuesOne("cp"))
             /\ (pc = "step2" /\ ~dir_exists => IssuesOne("mkdir"))
             /\ (pc = "step3" /\ ~remote_exists => IssuesOne("put"))]_vars
    /\ [](script = "cli" => IsPrefix(MutatingIssued, <<"cp", "mkdir", "put">>))

C3_Witness ==
    /\ script = "cli" /\ pc = "exited" /\ exitCode = 0
    /\ MutatingIssued = <<"cp", "mkdir", "put">>
    /\ \A i \in DOMAIN cmds : cmds[i].cmd \in Mutating => ~cmds[i].pre

\* C5 (as claimed): a non-zero exit of cp, mkdir or put aborts the run with a
\* raised error and no later command, except a mkdir failure whose stderr says
\* the directory already exists.
C5_Original ==
    script = "cli" =>
        \A i \in DOMAIN cmds :
            ( /\ cmds[i].cmd \in Mutating
              /\ cmds[i].rc = "nonzero"
              /\ ~(cmds[i].cmd = "mkdir" /\ cmds[i].text = "already exists") )
            => (i = Len(cmds) /\ raised = "CalledProcessError")

\* C5 (amended): a missing local file, or a non-zero exit of cp or put,
\* aborts the run with a raised error, no later command and exit status 1.
\* A non-zero exit of mkdir never aborts the run, whatever its stderr: control
\* goes on to step 3 with nothing raised, and a warning is printed exactly
\* when stderr does not say "already exists".
C5_Amended ==
    script = "cli" =>
        /\ (~local_exists => NoTransfer /\ (pc = "exited" => exitCode = 1))
        /\ (raised = "FileNotFoundError" =>
               ~local_exists /\ pc \in {"main_except", "exited"})
        /\ \A i \in DOMAIN cmds :
              (cmds[i].cmd \in {"cp", "put"} /\ cmds[i].rc = "nonzero") =>
                  /\ i = Len(cmds)
                  /\ raised = "CalledProcessError"
                  /\ pc \in {"main_except", "exited"}
                  /\ (pc = "exited" => exitCode = 1 /\ Printed("error"))
        /\ (cmds # <<>> /\ cmds[Len(cmds)].cmd = "mkdir" =>
               pc = "step3" /\ raised = "none")
        /\ (Printed("warning_mkdir") <=>
               \E i \in DOMAIN cmds : /\ cmds[i].cmd = "mkdir"
                                      /\ cmds[i].rc = "nonzero"
                                      /\ cmds[i].text # "already exists")

C5_Witness ==
    /\ script = "cli" /\ pc = "exited" /\ exitCode = 0
    /\ \E i \in DOMAIN cmds : /\ cmds[i].cmd = "mkdir"
                              /\ cmds[i].rc = "nonzero"
                              /\ cmds[i].text = "other"
    /\ Has("put", "ok")

\* The transfer of this run succeeded, as the script's function reports it.
Succeeded ==
    IF script = "cli" THEN ret = hdfs_destination ELSE ret = "True"

\* C6 (as claimed): a run of either transfer script exits with status 0 if
\* the transfer succeeded and with status 1 if it failed.
C6_Original ==
    pc = "exited" => /\ (Succeeded => exitCode = 0)
                     /\ (~Succeeded => exitCode = 1)

\* The names of the commands issued after the put of this run.
AfterPut ==
    LET k == CHOOSE i \in DOMAIN cmds : cmds[i].cmd = "put"
    IN  SubSeq(Names, k + 1, Len(cmds))

\* C8: in the CLI transfer, once put has succeeded nothing aborts the run: a
\* failed listing only prints a warning and control goes on to the cleanup, a
\* failed cleanup is ignored, the run returns the remote path and exits 0,
\* and the only commands after the put are the listing and the cleanup of
\* the staged file (the uploaded remote file stays).
C8_BestEffortAfterPut ==
    (script = "cli" /\ Has("put", "ok")) =>
        /\ raised = "none"
        /\ pc \in {"step4", "step5", "main_end", "exited"}
        /\ IsPrefix(AfterPut, <<"ls", "rm">>)
        /\ remote_exists
        /\ (Has("ls", "nonzero") => Printed("warning_verify"))
        /\ (cmds[Len(cmds)].cmd = "ls" => pc = "step5")
        /\ (pc \in {"main_end", "exited"} =>
               AfterPut = <<"ls", "rm">> /\ ret = hdfs_destination /\ Printed("success"))
        /\ (pc = "exited" => exitCode = 0)

C8_Witness ==
    /\ script = "cli" /\ pc = "exited" /\ exitCode = 0
    /\ Has("put", "ok") /\ Has("ls", "nonzero") /\ Has("rm", "nonzero")

\* C9: in the REST transfer the client operations are issued in the order
\* connect, makedirs, upload, status; a failed makedirs only prints a warning
\* and the upload is still attempted; status is issued only after a successful
\* upload; the function returns True exactly when upload and status both
\* succeeded and False in every other case, and never raises.
C9_RestOrderAndResult ==
    script = "rest" =>
        /\ IsPrefix(Names, <<"connect", "makedirs", "upload", "status">>)
        /\ raised = "none"
        /\ (cmds # <<>> /\ cmds[Len(cmds)].cmd = "makedirs" => pc = "lib_upload")
        /\ (Has("makedirs", "exception") => Printed("warning_makedirs"))
        /\ (Count("status") > 0 => Has("upload", "ok"))
        /\ (pc \in {"rest_main_end", "exited"} =>
               /\ ret \in {"True", "False"}
               /\ (ret = "True" <=> (Has("upload", "ok") /\ Has("status", "ok")))
               /\ (Has("connect", "ok") => Count("upload") = 1)
               /\ (~HDFS_AVAILABLE \/ ~local_exists => cmds = <<>> /\ ret = "False")
               /\ (Has("connect", "exception") => Len(cmds) = 1 /\ ret = "False"))

C9_Witness ==
    /\ script = "rest" /\ pc = "exited" /\ ret = "True"
    /\ Has("makedirs", "exception") /\ Has("upload", "ok") /\ Has("status", "ok")

\* C10: in the CLI transfer the cleanup command (rm of the staged file) is
\* issued only in a run whose put succeeded, and every such run that ends has
\* issued it once; a run that ends after a successful copy and a failed put
\* leaves the staged file in the container.
C10_CleanupIffPutOk ==
    script = "cli" =>
        /\ (Count("rm") > 0 => Has("put", "ok"))
        /\ Count("rm") <= 1
        /\ (pc = "exited" => (Count("rm") = 1 <=> Has("put", "ok")))
        /\ (pc = "exited" /\ Has("cp", "ok") /\ ~Has("put", "ok") => staged)

C10_Witness ==
    /\ script = "cli" /\ pc = "exited"
    /\ Has("cp", "ok") /\ Has("put", "nonzero") /\ staged /\ Count("rm") = 0

\* ---------------------------------------------------------- loader claims

\* A file that opens and parses as JSON.
IsValid(f) == f.readable /\ f.text # "not valid json"

ValidIdx == {i \in DOMAIN json_files : IsValid(json_files[i])}

InvalidIdx == DOMAIN json_files \ ValidIdx

\* The parsed values of the valid files, in discovery order.
ExpectedData ==
    LET v == SelectSeq(json_files, IsValid)
    IN  [i \in DOMAIN v |-> json_load(v[i].text).value]

ErrorLines == SelectSeq(out, LAMBDA l : l.kind = "error")

\* C4: one call of load_all_json_files on a fresh loader over N valid and M
\* invalid files leaves exactly the N parsed records in discovery order, logs
\* exactly M errors, one for each invalid file wherever it stands, and
\* returns normally.
C4_LoadYieldsValidRecords ==
    (calls = 1 /\ lret.kind = "list") =>
        /\ data = ExpectedData
        /\ Len(data) = Cardinality(ValidIdx)
        /\ Len(ErrorLines) = Cardinality(InvalidIdx)
        /\ {ErrorLines[i].n : i \in DOMAIN ErrorLines} = InvalidIdx
        /\ lret.n = Cardinality(ValidIdx)
        /\ out[Len(out)] = Line("loaded", Cardinality(ValidIdx))

C4_Witness ==
    /\ calls = 1 /\ lret.kind = "list"
    /\ Len(json_files) = 3
    /\ ~IsValid(json_files[1]) /\ IsValid(json_files[2]) /\ IsValid(json_files[3])
    /\ json_files[2] # json_files[3]
    /\ Len(data) = 2

\* C7 (as claimed): after any sequence of calls on one loader the dataset
\* holds one record per successfully parsed file, so at most one per
\* discovered file.
C7_Original ==
    calls > 0 => /\ Len(data) = Cardinality(ValidIdx)
                 /\ Len(data) <= Len(json_files)

====
